---- MODULE Spec2Model ----
(***************************************************************************)
(* Model of the two slideshow builders                                     *)
(*   src/presetaion_only_with_images.py        (script 1)                  *)
(*   src/presetaion_with_images_and_music.py   (script 2)                  *)
(* Both walk an image directory two levels deep and add one slide per      *)
(* image; script 2 also sets a timed transition per slide and embeds one   *)
(* audio file on the first slide.                                          *)
(***************************************************************************)
EXTENDS Integers, Sequences, FiniteSets, TLC

(***************************************************************************)
(* Arbitrary-size naturals.  Python's int is unbounded and its float is an *)
(* IEEE-754 binary64 whose 53-bit significand does not fit a model integer,*)
(* so a natural is a little-endian sequence of limbs in base 2^15 without  *)
(* leading zero limbs (zero is the empty sequence).                        *)
(***************************************************************************)
LimbBits == 5 * 3
Base == 2 ^ LimbBits

RECURSIVE BigOfInt(_)
BigOfInt(n) == IF n = 0 THEN <<>> ELSE <<n % Base>> \o BigOfInt(n \div Base)

RECURSIVE BigToInt(_)
BigToInt(a) == IF a = <<>> THEN 0 ELSE a[1] + Base * BigToInt(Tail(a))

RECURSIVE BigNorm(_)
BigNorm(a) ==
  IF a # <<>> /\ a[Len(a)] = 0 THEN BigNorm(SubSeq(a, 1, Len(a) - 1)) ELSE a

Limb(a, idx) == IF idx <= Len(a) THEN a[idx] ELSE 0

RECURSIVE BigCmpFrom(_, _, _)
BigCmpFrom(a, b, idx) ==
  IF idx = 0 THEN 0
  ELSE IF a[idx] > b[idx] THEN 1
  ELSE IF a[idx] < b[idx] THEN -1
  ELSE BigCmpFrom(a, b, idx - 1)

\* -1, 0, 1 as a < b, a = b, a > b
BigCmp(a, b) ==
  IF Len(a) > Len(b) THEN 1
  ELSE IF Len(a) < Len(b) THEN -1
  ELSE BigCmpFrom(a, b, Len(a))

RECURSIVE BigAddFrom(_, _, _, _)
BigAddFrom(a, b, idx, c) ==
  IF idx > Len(a) /\ idx > Len(b) THEN (IF c = 0 THEN <<>> ELSE <<c>>)
  ELSE LET s == Limb(a, idx) + Limb(b, idx) + c
       IN  <<s % Base>> \o BigAddFrom(a, b, idx + 1, s \div Base)

BigAdd(a, b) == BigAddFrom(a, b, 1, 0)

RECURSIVE BigSubFrom(_, _, _, _)
BigSubFrom(a, b, idx, br) ==
  IF idx > Len(a) THEN <<>>
  ELSE LET d == a[idx] - Limb(b, idx) - br
       IN  IF d < 0 THEN <<d + Base>> \o BigSubFrom(a, b, idx + 1, 1)
           ELSE <<d>> \o BigSubFrom(a, b, idx + 1, 0)

\* a - b for a >= b
BigSub(a, b) == BigNorm(BigSubFrom(a, b, 1, 0))

RECURSIVE BigMulLimbFrom(_, _, _, _)
BigMulLimbFrom(a, k, idx, c) ==
  IF idx > Len(a) THEN (IF c = 0 THEN <<>> ELSE <<c>>)
  ELSE LET s == a[idx] * k + c
       IN  <<s % Base>> \o BigMulLimbFrom(a, k, idx + 1, s \div Base)

\* a * k for a limb 0 <= k < Base
BigMulLimb(a, k) == IF k = 0 THEN <<>> ELSE BigMulLimbFrom(a, k, 1, 0)

\* a * Base
BigShiftLimb(a) == IF a = <<>> THEN <<>> ELSE <<0>> \o a

RECURSIVE BigMul(_, _)
BigMul(a, b) ==
  IF a = <<>> \/ b = <<>> THEN <<>>
  ELSE BigAdd(BigMulLimb(a, b[1]), BigShiftLimb(BigMul(a, Tail(b))))

RECURSIVE IntBitLen(_)
IntBitLen(n) == IF n = 0 THEN 0 ELSE 1 + IntBitLen(n \div 2)

BigBitLen(a) ==
  IF a = <<>> THEN 0 ELSE LimbBits * (Len(a) - 1) + IntBitLen(a[Len(a)])

\* bit idx (from 0, least significant) of a
BigBit(a, idx) == (Limb(a, idx \div LimbBits + 1) \div (2 ^ (idx % LimbBits))) % 2

Zeros(n) == [idx \in 1..n |-> 0]

\* a * 2^k
BigShl(a, k) ==
  IF a = <<>> THEN <<>>
  ELSE Zeros(k \div LimbBits) \o BigMulLimb(a, 2 ^ (k % LimbBits))

\* floor(a / 2^k)
BigShr(a, k) ==
  LET drop == k \div LimbBits
      r    == k % LimbBits
      n    == Len(a) - drop
  IN  IF n <= 0 THEN <<>>
      ELSE BigNorm([idx \in 1..n |->
             (a[idx + drop] \div (2 ^ r))
             + (Limb(a, idx + drop + 1) % (2 ^ r)) * (2 ^ (LimbBits - r))])

\* the k low bits of a are all zero
BigLowZero(a, k) == BigCmp(BigShl(BigShr(a, k), k), a) = 0

\* one digit of schoolbook long division: floor(cur / b) for cur < b * Base and
\* b with its top limb >= Base / 2.  The estimate qhat from the two top limbs
\* is at most 2 too large (Knuth, TAOCP 4.3.1, Theorem B).
BigQuotFix(cur, b, qhat) ==
  IF BigCmp(BigMulLimb(b, qhat), cur) <= 0 THEN qhat
  ELSE IF BigCmp(BigMulLimb(b, qhat - 1), cur) <= 0 THEN qhat - 1
  ELSE qhat - 2

BigQuotCap(cur, b, est) == BigQuotFix(cur, b, IF est > Base - 1 THEN Base - 1 ELSE est)

BigQuotDigit(cur, b) ==
  BigQuotCap(cur, b, (Limb(cur, Len(b) + 1) * Base + Limb(cur, Len(b))) \div b[Len(b)])

\* the digit qd of the running remainder cur, put in front of the digits q
BigDivDigit(cur, b, q, qd) ==
  [q |-> <<qd>> \o q, r |-> BigSub(cur, BigMulLimb(b, qd))]

\* limb x of the dividend brought down to p.r, the remainder so far
BigDivStep(b, x, p) ==
  IF p.r = <<>> /\ x = 0 THEN [q |-> <<0>> \o p.q, r |-> <<>>]
  ELSE BigDivDigit(BigNorm(<<x>> \o p.r), b, p.q,
                   BigQuotDigit(BigNorm(<<x>> \o p.r), b))

\* quotient limbs and remainder of the limbs idx.. of a by b, one limb per level
RECURSIVE BigDivFrom(_, _, _)
BigDivFrom(a, b, idx) ==
  IF idx > Len(a) THEN [q |-> <<>>, r |-> <<>>]
  ELSE BigDivStep(b, a[idx], BigDivFrom(a, b, idx + 1))

BigDivUnshift(d, s) == [q |-> BigNorm(d.q), r |-> BigShr(d.r, s)]

BigDivShifted(a, b, s) ==
  IF BigCmp(a, b) < 0 THEN [q |-> <<>>, r |-> a]
  ELSE BigDivUnshift(BigDivFrom(BigShl(a, s), BigShl(b, s), 1), s)

\* quotient and remainder of a by b > 0: both are shifted so that the top limb
\* of the divisor is at least Base / 2, which leaves the quotient unchanged
BigDivMod(a, b) == BigDivShifted(a, b, LimbBits - IntBitLen(b[Len(b)]))

(***************************************************************************)
(* binary64 values: [neg, m, e] stands for (-1)^neg * m * 2^e with         *)
(* 2^52 <= m < 2^53, or zero when m is the empty natural.  The operand     *)
(* ranges of the scripts stay far from overflow and subnormals.            *)
(***************************************************************************)
Precision == 53

FZero == [neg |-> FALSE, m |-> <<>>, e |-> 0]

\* a significand of 53 or, after a carry out of the rounding, 54 bits
RoundCarry(m1, e) ==
  IF BigBitLen(m1) > Precision
  THEN [neg |-> FALSE, m |-> BigShr(m1, 1), e |-> e + 1]
  ELSE [neg |-> FALSE, m |-> m1, e |-> e]

\* round to nearest, ties to even: half is the first bit dropped, sticky
\* tells whether anything nonzero lies below it
RoundEven(m0, half, sticky, e) ==
  RoundCarry(IF half /\ (sticky \/ BigBit(m0, 0) = 1) THEN BigAdd(m0, <<1>>) ELSE m0, e)

\* dm: quotient (of 54 bits at least) and remainder; d: the bits to drop
RoundDrop(dm, d, s) ==
  RoundEven(BigShr(dm.q, d), BigBit(dm.q, d - 1) = 1,
            dm.r # <<>> \/ ~BigLowZero(dm.q, d - 1), d - s)

RoundQuot(dm, s) ==
  IF dm.q = <<>> THEN FZero ELSE RoundDrop(dm, BigBitLen(dm.q) - Precision, s)

RoundScaled(p, q, s) ==
  IF s >= 0 THEN RoundQuot(BigDivMod(BigShl(p, s), q), s)
  ELSE RoundQuot(BigDivMod(p, BigShl(q, -s)), s)

\* p / q (naturals, p > 0, q > 0) rounded to nearest, ties to even
RoundRat(p, q) ==
  IF p = <<>> THEN FZero
  ELSE RoundScaled(p, q, Precision + 2 + BigBitLen(q) - BigBitLen(p))

\* numerator and denominator of |x| as naturals
FNum(x) == IF x.e >= 0 THEN BigShl(x.m, x.e) ELSE x.m
FDen(x) == IF x.e >= 0 THEN <<1>> ELSE BigShl(<<1>>, -x.e)

\* int / int (true division, correctly rounded), b > 0
FDivII(a, b) ==
  IF a = 0 THEN FZero
  ELSE IF a > 0 THEN RoundRat(BigOfInt(a), BigOfInt(b))
  ELSE [RoundRat(BigOfInt(-a), BigOfInt(b)) EXCEPT !.neg = TRUE]

\* int * float and float * int, for operands >= 0
FMulIF(n, x) ==
  IF n = 0 \/ x.m = <<>> THEN FZero
  ELSE RoundRat(BigMul(BigOfInt(n), FNum(x)), FDen(x))

\* int / float, for n >= 0 and x > 0
FDivIF(n, x) ==
  IF n = 0 THEN FZero
  ELSE RoundRat(BigMul(BigOfInt(n), FDen(x)), FNum(x))

\* (a - b) / den for naturals a, b
FSubNat(a, b, den) ==
  IF BigCmp(a, b) = 0 THEN FZero
  ELSE IF BigCmp(a, b) > 0 THEN RoundRat(BigSub(a, b), den)
  ELSE [RoundRat(BigSub(b, a), den) EXCEPT !.neg = TRUE]

\* int - float, for n >= 0 and x >= 0
FSubIF(n, x) ==
  IF x.m = <<>> THEN (IF n = 0 THEN FZero ELSE RoundRat(BigOfInt(n), <<1>>))
  ELSE FSubNat(BigMul(BigOfInt(n), FDen(x)), FNum(x), FDen(x))

\* x / 2
FHalf(x) == IF x.m = <<>> THEN x ELSE [x EXCEPT !.e = @ - 1]

\* x > y for x, y >= 0
FGt(x, y) ==
  IF x.m = <<>> THEN FALSE
  ELSE IF y.m = <<>> THEN TRUE
  ELSE x.e > y.e \/ (x.e = y.e /\ BigCmp(x.m, y.m) > 0)

\* int(x): truncation toward zero
FTrunc(x) ==
  LET mag == IF x.m = <<>> THEN 0
             ELSE IF x.e >= 0 THEN BigToInt(BigShl(x.m, x.e))
             ELSE BigToInt(BigShr(x.m, -x.e))
  IN  IF x.neg THEN -mag ELSE mag

(***************************************************************************)
(* Fit-to-canvas geometry of add_image_slide.  W, H: slide size in EMU;    *)
(* w, h: native pixel size of the image.  The result is what the script    *)
(* assigns to pic.left, pic.top, pic.width, pic.height.                    *)
(***************************************************************************)
\* script 1, lines 37-40 and 47-55: the height is the limit
Fit1Height(W, H, width) ==
  [left   |-> FTrunc(FHalf(FSubIF(W, width))),
   top    |-> FTrunc(FDivII(H - H, 2)),
   width  |-> FTrunc(width),
   height |-> H]

\* script 1, lines 41-44 and 47-55: the width is the limit
Fit1Width(W, H, height) ==
  [left   |-> FTrunc(FDivII(W - W, 2)),
   top    |-> FTrunc(FHalf(FSubIF(H, height))),
   width  |-> W,
   height |-> FTrunc(height)]

Fit1Ratio(W, H, aspect_ratio) ==
  IF FGt(FDivII(W, H), aspect_ratio) THEN Fit1Height(W, H, FMulIF(H, aspect_ratio))
  ELSE Fit1Width(W, H, FDivIF(W, aspect_ratio))

\* script 1, lines 34-55 (h # 0; w = 0 gives aspect_ratio 0.0)
Fit1(W, H, w, h) == Fit1Ratio(W, H, FDivII(w, h))

\* script 2, lines 74-84: size, then position
Fit2Center(W, H, new_width_emu, new_height_emu) ==
  [left   |-> FTrunc(FDivII(W - new_width_emu, 2)),
   top    |-> FTrunc(FDivII(H - new_height_emu, 2)),
   width  |-> new_width_emu,
   height |-> new_height_emu]

Fit2Ratio(W, H, img_aspect_ratio) ==
  IF FGt(FDivII(W, H), img_aspect_ratio)
  THEN Fit2Center(W, H, FTrunc(FMulIF(H, img_aspect_ratio)), H)
  ELSE Fit2Center(W, H, W, FTrunc(FDivIF(W, img_aspect_ratio)))

\* script 2, lines 67-84 (w # 0 and h # 0)
Fit2(W, H, w, h) == Fit2Ratio(W, H, FDivII(w, h))

(***************************************************************************)
(* File names.  A name is the sequence of the code points of its           *)
(* characters, so that sorted(), str.lower() and str.endswith() are        *)
(* computed on the characters as Python computes them.                     *)
(***************************************************************************)
\* a < b in Python's str order (code point by code point, a prefix first)
RECURSIVE LexLess(_, _)
LexLess(a, b) ==
  IF b = <<>> THEN FALSE
  ELSE IF a = <<>> THEN TRUE
  ELSE IF a[1] # b[1] THEN a[1] < b[1]
  ELSE LexLess(Tail(a), Tail(b))

\* os.listdir(d) used as it comes, here in descending order
RECURSIVE ListedUnsorted(_)
ListedUnsorted(S) ==
  IF S = {} THEN <<>>
  ELSE LET m == CHOOSE x \in S : \A y \in S \ {x} : LexLess(y, x)
       IN  <<m>> \o ListedUnsorted(S \ {m})

\* sorted(os.listdir(d)) for a directory holding the names S
RECURSIVE Sorted(_)
Sorted(S) ==
  IF S = {} THEN <<>>
  ELSE LET m == CHOOSE x \in S : \A y \in S \ {x} : LexLess(x, y)
       IN  <<m>> \o Sorted(S \ {m})

\* str.lower() on ASCII letters
Lower(name) ==
  [k \in 1..Len(name) |-> IF name[k] >= 65 /\ name[k] <= 90 THEN name[k] + 32 ELSE name[k]]

\* name.endswith(ext) for one suffix
EndsWith(name, ext) ==
  /\ Len(ext) <= Len(name)
  /\ SubSeq(name, Len(name) - Len(ext) + 1, Len(name)) = ext

\* ('.png', '.jpg', '.jpeg', '.gif', '.bmp', '.tiff')
SUPPORTED_EXTENSIONS ==
  { <<46, 112, 110, 103>>, <<46, 106, 112, 103>>, <<46, 106, 112, 101, 103>>,
    <<46, 103, 105, 102>>, <<46, 98, 109, 112>>, <<46, 116, 105, 102, 102>> }

\* ('.png', '.jpg', '.jpeg', '.gif', '.bmp', '.tiff', '.tif')
ALLOWED_IMAGE_EXTENSIONS == SUPPORTED_EXTENSIONS \cup { <<46, 116, 105, 102>> }

\* ('.mp3', '.wav', '.wma')
ALLOWED_MUSIC_EXTENSIONS ==
  { <<46, 109, 112, 51>>, <<46, 119, 97, 118>>, <<46, 119, 109, 97>> }

ImageExtensions(s) == IF s = 1 THEN SUPPORTED_EXTENSIONS ELSE ALLOWED_IMAGE_EXTENSIONS

\* name.lower().endswith(exts)
HasExtension(name, exts) == \E ext \in exts : EndsWith(Lower(name), ext)

(***************************************************************************)
(* The file system the scripts read.  An entry is a regular file (with the *)
(* native pixel size the imaging library reports for it) or a directory    *)
(* (with its entries).                                                     *)
(***************************************************************************)
File(name, w, h) == [name |-> name, kind |-> "file", size |-> <<w, h>>, items |-> {}]
Dir(name, entries) == [name |-> name, kind |-> "dir", size |-> <<0, 0>>, items |-> entries]

\* sub/: c.png 1x7, D.JPEG 7x2, x.docx, deep/q.png, e.gif/ (a directory)
SubItems ==
  { File(<<99, 46, 112, 110, 103>>, 1, 7),
    File(<<68, 46, 74, 80, 69, 71>>, 7, 2),
    File(<<120, 46, 100, 111, 99, 120>>, 1, 1),
    Dir(<<100, 101, 101, 112>>, { File(<<113, 46, 112, 110, 103>>, 1, 1) }),
    Dir(<<101, 46, 103, 105, 102>>, {}) }

\* B.PNG 4x3, a.png 0x5, z.png 5x0, n.txt, sub/ (above), d.png/ holding t.tif 9x7
RootPool ==
  { File(<<66, 46, 80, 78, 71>>, 4, 3),
    File(<<97, 46, 112, 110, 103>>, 0, 5),
    File(<<122, 46, 112, 110, 103>>, 5, 0),
    File(<<110, 46, 116, 120, 116>>, 1, 1),
    Dir(<<115, 117, 98>>, SubItems),
    Dir(<<100, 46, 112, 110, 103>>, { File(<<116, 46, 116, 105, 102>>, 9, 7) }) }

\* m.mp3, W.WAV, r.txt
MusicPool ==
  { <<109, 46, 109, 112, 51>>, <<87, 46, 87, 65, 86>>, <<114, 46, 116, 120, 116>> }

MaxRootEntries == 3
MaxMusicFiles == 2
MaxFaults == 1

Names(entries) == { x.name : x \in entries }
Entry(entries, name) == CHOOSE x \in entries : x.name = name

\* os.path.exists in the place of os.path.isfile
IsFileOrDir(entries, name) == \E x \in entries : x.name = name

\* os.path.isfile / os.path.isdir of a name in a directory
IsFile(entries, name) == \E x \in entries : x.name = name /\ x.kind = "file"
IsDir(entries, name) == \E x \in entries : x.name = name /\ x.kind = "dir"

(***************************************************************************)
(* The presentation document.  A slide records the source path it was      *)
(* added for (<<name>> in the root, <<dir, name>> in a subdirectory, <<dir>>*)
(* for a title), its picture ("none", "temp": as add_picture placed it,    *)
(* "fit": geometry assigned from the fit computation), its title text, its *)
(* transition ("none", "set", "failed") and the media embedded on it.      *)
(***************************************************************************)
EmuPerInch == 914400

\* Presentation() default size (4:3) in script 1; Inches(16) x Inches(9) in script 2
SlideWidth(s) == IF s = 1 THEN 10 * EmuPerInch ELSE 16 * EmuPerInch
SlideHeight(s) == IF s = 1 THEN (15 * EmuPerInch) \div 2 ELSE 9 * EmuPerInch

SLIDE_TRANSITION_SECONDS == 1

NoRect == [left |-> 0, top |-> 0, width |-> 0, height |-> 0]

BlankSlide(path) ==
  [kind |-> "image", src |-> path, pic |-> "none", rect |-> NoRect,
   title |-> <<>>, trans |-> "none", advance_time |-> 0, media |-> <<>>]

TitleSlide(path) == [BlankSlide(path) EXCEPT !.kind = "title"]

\* the native sizes of the files of the pools
RECURSIVE FileSizes(_)
FileSizes(entries) ==
  UNION { IF x.kind = "file" THEN { x.size } ELSE FileSizes(x.items) : x \in entries }

\* the native sizes for which a script reaches its fit computation
FitSizes(s) == { z \in FileSizes(RootPool) : z[2] # 0 /\ (s = 1 \/ z[1] # 0) }

\* the fit computation on the scripts' own canvas, computed once per size
FitTable ==
  { [s |-> 1, sz |-> z, rect |-> Fit1(SlideWidth(1), SlideHeight(1), z[1], z[2])] :
      z \in FitSizes(1) }
  \cup
  { [s |-> 2, sz |-> z, rect |-> Fit2(SlideWidth(2), SlideHeight(2), z[1], z[2])] :
      z \in FitSizes(2) }

FitMemo ==
  [s \in 1..2 |->
     [sz \in FitSizes(s) |-> (CHOOSE r \in FitTable : r.s = s /\ r.sz = sz).rect]]

\* set_automatic_transition(slide, seconds); tfault: the library call raised,
\* which the function catches and reports as a warning
SetAutomaticTransition(slide, seconds, tfault) ==
  IF tfault THEN [slide EXCEPT !.trans = "failed"]
  ELSE [slide EXCEPT !.trans = "set", !.advance_time = seconds * 1000]

(***************************************************************************)
(* add_image_slide.  fault names the library call that raises, if any:     *)
(* "layout" (before the slide is added), "picture" (add_picture, after the *)
(* slide is added), "place" (while the geometry is assigned).              *)
(***************************************************************************)
\* script 1: [slides, ret, div]; div: the aspect-ratio division raised
AddImageSlide1(sl, path, size, fault) ==
  IF fault = "layout" THEN [slides |-> sl, ret |-> FALSE, div |-> FALSE]
  ELSE IF fault = "picture"
    THEN [slides |-> Append(sl, BlankSlide(path)), ret |-> FALSE, div |-> FALSE]
  ELSE IF size[2] = 0
    \* ZeroDivisionError at line 34; the handler removes the picture
    THEN [slides |-> Append(sl, BlankSlide(path)), ret |-> FALSE, div |-> TRUE]
  ELSE IF fault = "place"
    THEN [slides |-> Append(sl, BlankSlide(path)), ret |-> FALSE, div |-> FALSE]
  ELSE [slides |-> Append(sl, [BlankSlide(path) EXCEPT
                                 !.pic = "fit", !.rect = FitMemo[1][size]]),
        ret |-> TRUE, div |-> FALSE]

\* script 2: [slides, zero]; zero: the zero-size branch was taken
AddImageSlide2(sl, path, size, fault, tfault) ==
  IF fault = "layout" THEN [slides |-> sl, zero |-> FALSE]
  ELSE IF fault = "picture"
    THEN [slides |-> Append(sl, BlankSlide(path)), zero |-> FALSE]
  ELSE IF size[1] = 0 \/ size[2] = 0
    \* lines 59-64: the picture stays as add_picture placed it
    THEN [slides |-> Append(sl, SetAutomaticTransition(
                          [BlankSlide(path) EXCEPT !.pic = "temp"],
                          SLIDE_TRANSITION_SECONDS, tfault)),
          zero |-> TRUE]
  ELSE IF fault = "place"
    THEN [slides |-> Append(sl, [BlankSlide(path) EXCEPT !.pic = "temp"]),
          zero |-> FALSE]
  ELSE [slides |-> Append(sl, SetAutomaticTransition(
                        [BlankSlide(path) EXCEPT
                           !.pic = "fit", !.rect = FitMemo[2][size]],
                        SLIDE_TRANSITION_SECONDS, tfault)),
        zero |-> FALSE]

(***************************************************************************)
(* add_title_slide.  fault: "layout" (before the slide is added) or "text" *)
(* (after it, while the text is set).  The text goes to the title          *)
(* placeholder or to a text box; either way the slide shows it.            *)
(***************************************************************************)
AddTitleSlide1(sl, text, fault) ==
  IF fault = "layout" THEN sl
  ELSE IF fault = "text" THEN Append(sl, TitleSlide(<<text>>))
  ELSE Append(sl, [TitleSlide(<<text>>) EXCEPT !.title = text])

AddTitleSlide2(sl, text, fault, tfault) ==
  IF fault = "layout" THEN sl
  ELSE IF fault = "text" THEN Append(sl, TitleSlide(<<text>>))
  ELSE Append(sl, SetAutomaticTransition(
                [TitleSlide(<<text>>) EXCEPT !.title = text],
                SLIDE_TRANSITION_SECONDS, tfault))

(***************************************************************************)
(* Background music (script 2).                                            *)
(***************************************************************************)
\* find_music_file: the first name, in the order os.listdir returned them,
\* that ends with an allowed extension; <<>> stands for None
RECURSIVE FindMusicFile(_)
FindMusicFile(listing) ==
  IF listing = <<>> THEN <<>>
  ELSE IF HasExtension(listing[1], ALLOWED_MUSIC_EXTENSIONS) THEN listing[1]
  ELSE FindMusicFile(Tail(listing))

\* add_background_music: embeds the file on prs.slides[0]
AddBackgroundMusic(sl, music_file, fault) ==
  IF sl = <<>> THEN sl
  ELSE IF fault = "movie" THEN sl
  ELSE [sl EXCEPT ![1].media = Append(@, music_file)]

\* the orders in which os.listdir may return the names S
RECURSIVE Listings(_)
Listings(S) ==
  IF S = {} THEN { <<>> }
  ELSE UNION { { <<x>> \o l : l \in Listings(S \ {x}) } : x \in S }

VARIABLES
  script,                 \* 1 or 2: which script runs
  rootExists,             \* os.path.isdir of the image directory
  tree,                   \* the entries of the image directory
  pc,                     \* position of the run
  items,                  \* items_in_root / items_in_images_dir
  i,                      \* index of the current root item
  curdir,                 \* the subdirectory being processed
  subitems,               \* subdir_items / sub_dir_items
  j,                      \* index of the current subdirectory item
  slides,                 \* prs.slides
  root_images_processed,  \* script 1
  images_in_subdir,       \* script 1
  subdirs_processed,      \* script 1
  processed_slides,       \* script 2
  musicListing,           \* what os.listdir(MUSIC_DIR) returned
  music_file,             \* script 2: result of find_music_file
  saved,                  \* times the output file was written
  saveCalls,              \* times prs.save was called
  exitStatus,             \* -1 while running, then the exit status
  log,                    \* the messages printed
  faults,                 \* library calls that raised so far
  calls,                  \* paths handed to add_image_slide / add_title_slide
  unlistable,             \* subdirectories whose listing raised
  divErrors,              \* ZeroDivisionErrors raised
  fitIn, fitOut           \* fit computation on its own: input and result

runVars ==
  <<script, rootExists, tree, pc, items, i, curdir, subitems, j, slides,
    root_images_processed, images_in_subdir, subdirs_processed,
    processed_slides, musicListing, music_file, saved, saveCalls, exitStatus,
    log, faults, calls, unlistable, divErrors>>

vars == <<runVars, fitIn, fitOut>>

Trees == { S \in SUBSET RootPool : Cardinality(S) <= MaxRootEntries }

Init ==
  /\ script \in 1..2
  /\ rootExists \in BOOLEAN
  /\ tree \in (IF rootExists THEN Trees ELSE { {} })
  /\ pc = "start"
  /\ items = <<>> /\ i = 1 /\ curdir = <<>> /\ subitems = <<>> /\ j = 1
  /\ slides = <<>>
  /\ root_images_processed = 0 /\ images_in_subdir = 0 /\ subdirs_processed = 0
  /\ processed_slides = 0
  /\ musicListing = <<>> /\ music_file = <<>>
  /\ saved = 0 /\ saveCalls = 0 /\ exitStatus = -1
  /\ log = {} /\ faults = 0 /\ calls = <<>> /\ unlistable = {} /\ divErrors = 0
  /\ fitIn = <<>> /\ fitOut = NoRect

\* the library calls that may raise at a step: none once MaxFaults have
FaultChoices(kinds) == IF faults < MaxFaults THEN { "none" } \cup kinds ELSE { "none" }
Cost(fault) == IF fault = "none" THEN 0 ELSE 1

\* the calls of add_image_slide that may raise for an image of this size
ImageFaults1(size) ==
  IF size[2] = 0 THEN { "layout", "picture" } ELSE { "layout", "picture", "place" }
ImageFaults2(size) ==
  IF size[1] = 0 \/ size[2] = 0 THEN { "layout", "picture" }
  ELSE { "layout", "picture", "place" }

\* the directory test left out
RootIsDirAssumed == TRUE

\* os.path.isdir(IMAGE_DIR), tested before anything is created or listed
RootIsDir == rootExists

\* a failure that leaves the loop instead of being caught inside the item
NextIndexAbort(k, n, failed) == IF failed THEN n + 1 ELSE k + 1

\* the for loop after one item: the item's own try/except has taken care of
\* a failure, so the loop goes on with the next of the n items
NextIndex(k, n, failed) == k + 1

(***************************************************************************)
(* Script 1: create_presentation                                           *)
(***************************************************************************)
\* lines 108-121: directory check, Presentation(), sorted listing
Start1 ==
  /\ pc = "start" /\ script = 1
  /\ IF ~RootIsDir
     THEN /\ log' = log \cup { "dir_not_found" }
          /\ pc' = "done" /\ exitStatus' = 0
          /\ UNCHANGED <<items, faults>>
     ELSE \E fault \in FaultChoices({ "listdir" }) :
            /\ faults' = faults + Cost(fault)
            /\ IF fault = "listdir"
               \* os.listdir raises outside any try: the run dies with a traceback
               THEN /\ log' = log \cup { "traceback" }
                    /\ pc' = "done" /\ exitStatus' = 1
                    /\ UNCHANGED items
               ELSE /\ items' = Sorted(Names(tree))
                    /\ pc' = "root"
                    /\ UNCHANGED <<log, exitStatus>>
  /\ i' = 1
  /\ UNCHANGED <<script, rootExists, tree, curdir, subitems, j, slides,
                 root_images_processed, images_in_subdir, subdirs_processed,
                 processed_slides, musicListing, music_file, saved, saveCalls,
                 calls, unlistable, divErrors, fitIn, fitOut>>

\* lines 126-135: first loop, the images directly in the root directory
RootItem1 ==
  /\ pc = "root" /\ script = 1
  /\ IF i > Len(items)
     THEN /\ pc' = "subdirs" /\ i' = 1
          /\ log' = log \cup { IF root_images_processed > 0 THEN "root_images"
                              ELSE "no_root_images" }
          /\ UNCHANGED <<slides, root_images_processed, faults, calls, divErrors>>
     ELSE /\ pc' = pc
          /\ IF IsFile(tree, items[i]) /\ HasExtension(items[i], SUPPORTED_EXTENSIONS)
             THEN \E fault \in FaultChoices(ImageFaults1(Entry(tree, items[i]).size)) :
                    LET r == AddImageSlide1(slides, <<items[i]>>,
                                            Entry(tree, items[i]).size, fault)
                    IN  /\ slides' = r.slides
                        /\ i' = NextIndex(i, Len(items), ~r.ret)
                        /\ root_images_processed' =
                             root_images_processed + (IF r.ret THEN 1 ELSE 0)
                        /\ divErrors' = divErrors + (IF r.div THEN 1 ELSE 0)
                        /\ faults' = faults + Cost(fault)
                        /\ calls' = Append(calls, <<items[i]>>)
                        /\ log' = log \cup { IF r.ret THEN "added_image"
                                            ELSE "error_adding_image" }
             ELSE /\ i' = i + 1
                  /\ UNCHANGED <<slides, root_images_processed, faults, calls,
                                 divErrors, log>>
  /\ UNCHANGED <<script, rootExists, tree, items, curdir, subitems, j,
                 images_in_subdir, subdirs_processed, processed_slides,
                 musicListing, music_file, saved, saveCalls, exitStatus,
                 unlistable, fitIn, fitOut>>

\* lines 141-154, 166-173: second loop, title slide and listing of a subdirectory
SubdirItem1 ==
  /\ pc = "subdirs" /\ script = 1
  /\ IF i > Len(items)
     THEN /\ pc' = "save"
          /\ log' = log \cup { IF subdirs_processed > 0 THEN "subdirs"
                              ELSE "no_subdirs" }
          /\ UNCHANGED <<i, curdir, subitems, j, slides, images_in_subdir,
                         faults, calls, unlistable>>
     ELSE IF IsDir(tree, items[i])
     THEN \E tf \in FaultChoices({ "layout", "text" }) :
          \E lf \in (IF faults + Cost(tf) < MaxFaults THEN { "none", "listdir" }
                     ELSE { "none" }) :
            /\ slides' = AddTitleSlide1(slides, items[i], tf)
            /\ calls' = Append(calls, <<items[i]>>)
            /\ faults' = faults + Cost(tf) + Cost(lf)
            /\ images_in_subdir' = 0
            /\ IF lf = "listdir"
               THEN /\ log' = log \cup { "error_subdir" }
                    /\ unlistable' = unlistable \cup { items[i] }
                    /\ i' = NextIndex(i, Len(items), TRUE) /\ pc' = pc
                    /\ UNCHANGED <<curdir, subitems, j>>
               ELSE /\ curdir' = items[i]
                    /\ subitems' = Sorted(Names(Entry(tree, items[i]).items))
                    /\ j' = 1 /\ pc' = "subitems"
                    /\ UNCHANGED <<i, log, unlistable>>
     ELSE /\ i' = i + 1 /\ pc' = pc
          /\ UNCHANGED <<curdir, subitems, j, slides, images_in_subdir, faults,
                         calls, unlistable, log>>
  /\ UNCHANGED <<script, rootExists, tree, items, root_images_processed,
                 subdirs_processed, processed_slides, musicListing, music_file,
                 saved, saveCalls, exitStatus, divErrors, fitIn, fitOut>>

\* lines 155-164: the images inside the current subdirectory
SubItem1 ==
  /\ pc = "subitems" /\ script = 1
  /\ IF j > Len(subitems)
     THEN /\ subdirs_processed' = subdirs_processed
                                   + (IF images_in_subdir > 0 THEN 1 ELSE 0)
          /\ log' = log \cup { IF images_in_subdir > 0 THEN "subdir_images"
                              ELSE "no_subdir_images" }
          /\ i' = i + 1 /\ pc' = "subdirs"
          /\ UNCHANGED <<j, slides, images_in_subdir, faults, calls, divErrors>>
     ELSE /\ pc' = pc
          /\ UNCHANGED <<i, subdirs_processed>>
          /\ IF /\ IsFile(Entry(tree, curdir).items, subitems[j])
                /\ HasExtension(subitems[j], SUPPORTED_EXTENSIONS)
             THEN LET size == Entry(Entry(tree, curdir).items, subitems[j]).size
                  IN  \E fault \in FaultChoices(ImageFaults1(size)) :
                        LET r == AddImageSlide1(slides, <<curdir, subitems[j]>>,
                                                size, fault)
                        IN  /\ slides' = r.slides
                            /\ j' = NextIndex(j, Len(subitems), ~r.ret)
                            /\ images_in_subdir' =
                                 images_in_subdir + (IF r.ret THEN 1 ELSE 0)
                            /\ divErrors' = divErrors + (IF r.div THEN 1 ELSE 0)
                            /\ faults' = faults + Cost(fault)
                            /\ calls' = Append(calls, <<curdir, subitems[j]>>)
                            /\ log' = log \cup { IF r.ret THEN "added_image"
                                                ELSE "error_adding_image" }
             ELSE /\ j' = j + 1
                  /\ UNCHANGED <<slides, images_in_subdir, faults, calls,
                                 divErrors, log>>
  /\ UNCHANGED <<script, rootExists, tree, items, curdir, subitems,
                 root_images_processed, processed_slides, musicListing,
                 music_file, saved, saveCalls, exitStatus, unlistable,
                 fitIn, fitOut>>

\* lines 176-182: prs.save inside try/except
Save1 ==
  /\ pc = "save" /\ script = 1
  /\ \E fault \in FaultChoices({ "save" }) :
       /\ faults' = faults + Cost(fault)
       /\ saveCalls' = saveCalls + 1
       /\ saved' = saved + (IF fault = "none" THEN 1 ELSE 0)
       /\ log' = log \cup { IF fault = "none" THEN "saved" ELSE "save_error" }
  /\ pc' = "done" /\ exitStatus' = 0
  /\ UNCHANGED <<script, rootExists, tree, items, i, curdir, subitems, j, slides,
                 root_images_processed, images_in_subdir, subdirs_processed,
                 processed_slides, musicListing, music_file, calls, unlistable,
                 divErrors, fitIn, fitOut>>

(***************************************************************************)
(* Script 2: the __main__ section                                          *)
(***************************************************************************)
\* lines 241-259: Presentation(), directory check, sorted listing
Start2 ==
  /\ pc = "start" /\ script = 2
  /\ IF ~RootIsDir
     THEN /\ log' = log \cup { "fatal_not_found" }
          /\ pc' = "done" /\ exitStatus' = 1
          /\ UNCHANGED <<items, faults>>
     ELSE \E fault \in FaultChoices({ "listdir" }) :
            /\ faults' = faults + Cost(fault)
            /\ IF fault = "listdir"
               THEN /\ log' = log \cup { "fatal_list" }
                    /\ pc' = "done" /\ exitStatus' = 1
                    /\ UNCHANGED items
               ELSE /\ items' = Sorted(Names(tree))
                    /\ pc' = "main"
                    /\ UNCHANGED <<log, exitStatus>>
  /\ i' = 1
  /\ UNCHANGED <<script, rootExists, tree, curdir, subitems, j, slides,
                 root_images_processed, images_in_subdir, subdirs_processed,
                 processed_slides, musicListing, music_file, saved, saveCalls,
                 calls, unlistable, divErrors, fitIn, fitOut>>

\* what add_image_slide of script 2 does to the run: shared by both loops
ImageStep2(path, size) ==
  \E fault \in FaultChoices(ImageFaults2(size)) :
  \E tfault \in (IF fault = "none" /\ faults < MaxFaults THEN BOOLEAN ELSE { FALSE }) :
    LET r == AddImageSlide2(slides, path, size, fault, tfault)
    IN  /\ slides' = r.slides
        /\ faults' = faults + Cost(fault) + (IF tfault THEN 1 ELSE 0)
        /\ calls' = Append(calls, path)
        /\ processed_slides' = processed_slides + 1
        /\ IF Len(path) = 1
           THEN i' = NextIndex(i, Len(items), fault # "none") /\ j' = j
           ELSE j' = NextIndex(j, Len(subitems), fault # "none") /\ i' = i
        /\ log' = log \cup (IF fault # "none" THEN { "error_processing_image" }
                            ELSE IF r.zero THEN { "zero_size" }
                            ELSE { "processed_image" })
                     \cup (IF tfault THEN { "transition_warning" } ELSE {})

\* lines 264-295: one item of the images directory
MainItem2 ==
  /\ pc = "main" /\ script = 2
  /\ IF i > Len(items)
     THEN /\ pc' = "music"
          /\ UNCHANGED <<i, curdir, subitems, j, slides, processed_slides, faults,
                         calls, unlistable, log>>
     ELSE IF IsFile(tree, items[i]) /\ HasExtension(items[i], ALLOWED_IMAGE_EXTENSIONS)
     THEN /\ ImageStep2(<<items[i]>>, Entry(tree, items[i]).size)
          /\ pc' = pc
          /\ UNCHANGED <<curdir, subitems, unlistable>>
     ELSE IF IsDir(tree, items[i])
     THEN \E tf \in FaultChoices({ "layout", "text" }) :
          \E tfault \in (IF tf = "none" /\ faults < MaxFaults THEN BOOLEAN
                         ELSE { FALSE }) :
          \E lf \in (IF faults + Cost(tf) + (IF tfault THEN 1 ELSE 0) < MaxFaults
                     THEN { "none", "listdir" } ELSE { "none" }) :
            /\ slides' = AddTitleSlide2(slides, items[i], tf, tfault)
            /\ calls' = Append(calls, <<items[i]>>)
            /\ processed_slides' = processed_slides + 1
            /\ faults' = faults + Cost(tf) + (IF tfault THEN 1 ELSE 0) + Cost(lf)
            /\ IF lf = "listdir"
               THEN /\ log' = log \cup { "error_subdir" }
                                 \cup (IF tfault THEN { "transition_warning" } ELSE {})
                    /\ unlistable' = unlistable \cup { items[i] }
                    /\ i' = NextIndex(i, Len(items), TRUE) /\ pc' = pc
                    /\ UNCHANGED <<curdir, subitems, j>>
               ELSE /\ curdir' = items[i]
                    /\ subitems' = Sorted(Names(Entry(tree, items[i]).items))
                    /\ j' = 1 /\ pc' = "subitems"
                    /\ log' = log \cup (IF tfault THEN { "transition_warning" } ELSE {})
                    /\ UNCHANGED <<i, unlistable>>
     ELSE /\ log' = log \cup { "skipping_item" }
          /\ i' = i + 1 /\ pc' = pc
          /\ UNCHANGED <<curdir, subitems, j, slides, processed_slides, faults,
                         calls, unlistable>>
  /\ UNCHANGED <<script, rootExists, tree, items, root_images_processed,
                 images_in_subdir, subdirs_processed, musicListing, music_file,
                 saved, saveCalls, exitStatus, divErrors, fitIn, fitOut>>

\* lines 288-293: the images inside the current subdirectory
SubItem2 ==
  /\ pc = "subitems" /\ script = 2
  /\ IF j > Len(subitems)
     THEN /\ i' = i + 1 /\ pc' = "main"
          /\ UNCHANGED <<j, slides, processed_slides, faults, calls, log>>
     ELSE /\ pc' = pc
          /\ IF /\ IsFile(Entry(tree, curdir).items, subitems[j])
                /\ HasExtension(subitems[j], ALLOWED_IMAGE_EXTENSIONS)
             THEN ImageStep2(<<curdir, subitems[j]>>,
                             Entry(Entry(tree, curdir).items, subitems[j]).size)
             ELSE /\ j' = j + 1 /\ i' = i
                  /\ UNCHANGED <<slides, processed_slides, faults, calls, log>>
  /\ UNCHANGED <<script, rootExists, tree, items, curdir, subitems,
                 root_images_processed, images_in_subdir, subdirs_processed,
                 musicListing, music_file, saved, saveCalls, exitStatus,
                 unlistable, divErrors, fitIn, fitOut>>

\* lines 298-306: find_music_file, then add_background_music
Music2 ==
  /\ pc = "music" /\ script = 2
  /\ \E exists \in BOOLEAN :
     \E S \in { T \in SUBSET MusicPool : Cardinality(T) <= MaxMusicFiles } :
     \E listing \in (IF exists THEN Listings(S) ELSE { <<>> }) :
     \E fault \in FaultChoices({ "movie" }) :
       /\ (~exists => S = {})
       /\ (fault = "movie" =>
             FindMusicFile(listing) # <<>> /\ processed_slides > 0 /\ slides # <<>>)
       /\ musicListing' = listing
       /\ music_file' = FindMusicFile(listing)
       /\ faults' = faults + Cost(fault)
       /\ IF ~exists
          THEN /\ log' = log \cup { "music_dir_not_found" }
               /\ UNCHANGED slides
          ELSE IF FindMusicFile(listing) = <<>>
          THEN /\ log' = log \cup { "no_music_file" }
               /\ UNCHANGED slides
          ELSE IF processed_slides > 0
          THEN /\ slides' = AddBackgroundMusic(slides, FindMusicFile(listing), fault)
               /\ log' = log \cup { IF slides = <<>> THEN "no_slides_for_music"
                                   ELSE IF fault = "movie" THEN "error_adding_music"
                                   ELSE "embedded_music" }
          ELSE /\ log' = log \cup { "skipping_music" }
               /\ UNCHANGED slides
  /\ pc' = "save"
  /\ UNCHANGED <<script, rootExists, tree, items, i, curdir, subitems, j,
                 root_images_processed, images_in_subdir, subdirs_processed,
                 processed_slides, saved, saveCalls, exitStatus, calls,
                 unlistable, divErrors, fitIn, fitOut>>

\* the guard of the save left out
SlidesWereProcessedAssumed == TRUE

\* line 310: if processed_slides > 0
SlidesWereProcessed == processed_slides > 0

\* lines 308-326: prs.save when processed_slides > 0
Save2 ==
  /\ pc = "save" /\ script = 2
  /\ IF SlidesWereProcessed
     THEN \E fault \in FaultChoices({ "save" }) :
            /\ faults' = faults + Cost(fault)
            /\ saveCalls' = saveCalls + 1
            /\ saved' = saved + (IF fault = "none" THEN 1 ELSE 0)
            /\ log' = log \cup { IF fault = "none" THEN "saved" ELSE "save_error" }
     ELSE /\ log' = log \cup { "not_saved" }
          /\ UNCHANGED <<faults, saveCalls, saved>>
  /\ pc' = "done" /\ exitStatus' = 0
  /\ UNCHANGED <<script, rootExists, tree, items, i, curdir, subitems, j, slides,
                 root_images_processed, images_in_subdir, subdirs_processed,
                 processed_slides, musicListing, music_file, calls, unlistable,
                 divErrors, fitIn, fitOut>>

Next ==
  \/ Start1 \/ RootItem1 \/ SubdirItem1 \/ SubItem1 \/ Save1
  \/ Start2 \/ MainItem2 \/ SubItem2 \/ Music2 \/ Save2

Spec == Init /\ [][Next]_vars

\* a script is one thread of straight-line code and loops over finite
\* listings: whenever it has a next step it takes it
FairSpec == Init /\ [][Next]_vars /\ WF_vars(Next)

(***************************************************************************)
(* The fit computation on its own: add_image_slide's geometry for every    *)
(* canvas and image size of a bounded range and for the scripts' own       *)
(* canvases.                                                               *)
(***************************************************************************)
MaxCanvas == 9
MaxPixels == 9

FitInputs ==
  ((1..MaxCanvas) \X (1..MaxCanvas) \X (1..MaxPixels) \X (1..MaxPixels))
    \cup { <<SlideWidth(s), SlideHeight(s), w, h>> :
             s \in 1..2, w \in 1..MaxPixels, h \in 1..MaxPixels }

InitFit ==
  /\ script \in 1..2
  /\ fitIn \in FitInputs
  /\ fitOut = NoRect
  /\ pc = "fit"
  /\ rootExists = FALSE /\ tree = {}
  /\ items = <<>> /\ i = 1 /\ curdir = <<>> /\ subitems = <<>> /\ j = 1
  /\ slides = <<>>
  /\ root_images_processed = 0 /\ images_in_subdir = 0 /\ subdirs_processed = 0
  /\ processed_slides = 0
  /\ musicListing = <<>> /\ music_file = <<>>
  /\ saved = 0 /\ saveCalls = 0 /\ exitStatus = -1
  /\ log = {} /\ faults = 0 /\ calls = <<>> /\ unlistable = {} /\ divErrors = 0

\* the geometry add_image_slide assigns to the picture
FitStep ==
  /\ pc = "fit"
  /\ fitOut' = IF script = 1 THEN Fit1(fitIn[1], fitIn[2], fitIn[3], fitIn[4])
               ELSE Fit2(fitIn[1], fitIn[2], fitIn[3], fitIn[4])
  /\ pc' = "fitted"
  /\ UNCHANGED <<script, rootExists, tree, items, i, curdir, subitems, j, slides,
                 root_images_processed, images_in_subdir, subdirs_processed,
                 processed_slides, musicListing, music_file, saved, saveCalls,
                 exitStatus, log, faults, calls, unlistable, divErrors, fitIn>>

SpecFit == InitFit /\ [][FitStep]_vars

(***************************************************************************)
(* Properties                                                              *)
(***************************************************************************)
Abs(x) == IF x < 0 THEN -x ELSE x
Max(x, y) == IF x > y THEN x ELSE y

IsTitle(s) == s.kind = "title"
IsRootImage(s) == s.kind = "image" /\ Len(s.src) = 1
IsSubImage(s) == s.kind = "image" /\ Len(s.src) = 2
InDir(s, d) == IsSubImage(s) /\ s.src[1] = d

\* the directory entry a slide was added for
SrcEntry(path) ==
  IF Len(path) = 1 THEN Entry(tree, path[1])
  ELSE Entry(Entry(tree, path[1]).items, path[2])

ZeroSize(path) == SrcEntry(path).size[1] = 0 \/ SrcEntry(path).size[2] = 0

\* C1: in both scripts every slide of a root-level image precedes every title
\* slide and every slide of an image inside a subdirectory.
C1_RootBeforeSubdirectories ==
  \A a, b \in 1..Len(slides) :
    (IsRootImage(slides[a]) /\ (IsTitle(slides[b]) \/ IsSubImage(slides[b])))
      => a < b

\* C2: slides of images of one directory are in lexicographic order of their
\* file names, subdirectories are handled in lexicographic order of their
\* names, and a subdirectory's title slide comes immediately before its image
\* slides, which form one block with no slide of another directory in between.
\* (A title slide whose add failed is not in the document; when no call
\* failed every image of a subdirectory has the title before it.)
C2_LexicographicAtEachLevel ==
  /\ faults = 0 =>
       \A b \in 1..Len(slides) :
         IsSubImage(slides[b]) =>
           \E a \in 1..(b - 1) : IsTitle(slides[a]) /\ slides[a].src[1] = slides[b].src[1]
  /\ \A a, b \in 1..Len(slides) :
    a < b =>
      LET sa == slides[a]
          sb == slides[b]
      IN  /\ (IsRootImage(sa) /\ IsRootImage(sb)) => LexLess(sa.src[1], sb.src[1])
          /\ (IsTitle(sa) /\ IsTitle(sb)) => LexLess(sa.src[1], sb.src[1])
          /\ (IsSubImage(sa) /\ IsSubImage(sb)) =>
               IF sa.src[1] = sb.src[1]
               THEN /\ LexLess(sa.src[2], sb.src[2])
                    /\ \A c \in a..b : InDir(slides[c], sa.src[1])
               ELSE LexLess(sa.src[1], sb.src[1])
          /\ (IsTitle(sa) /\ InDir(sb, sa.src[1])) =>
               \A c \in (a + 1)..b : InDir(slides[c], sa.src[1])
          /\ (IsSubImage(sa) /\ IsTitle(sb)) => LexLess(sa.src[1], sb.src[1])
          /\ (IsTitle(sa) /\ IsSubImage(sb)) =>
               (sa.src[1] = sb.src[1] \/ LexLess(sa.src[1], sb.src[1]))

\* a finished run with a root image, two subdirectories with their titles and
\* two images of one subdirectory
C2_Witness ==
  /\ pc = "done"
  /\ \E a, b, c, d, e \in 1..Len(slides) :
       /\ IsRootImage(slides[a])
       /\ IsTitle(slides[b]) /\ IsTitle(slides[c]) /\ b < c
       /\ InDir(slides[d], slides[c].src[1]) /\ InDir(slides[e], slides[c].src[1])
       /\ d < e

\* C3: for positive canvas and image sizes the fitted rectangle does not
\* overflow the canvas, its opposite margins differ by at most 1, the
\* constrained axis fills the canvas (height = H when W*h > w*H, width = W
\* otherwise) and |width*h - height*w| < max(w, h).
C3_FitCenteredAndFitted ==
  pc = "fitted" =>
    LET W == fitIn[1]
        H == fitIn[2]
        w == fitIn[3]
        h == fitIn[4]
    IN  /\ 0 <= fitOut.left /\ 0 <= fitOut.top
        /\ fitOut.left + fitOut.width <= W
        /\ fitOut.top + fitOut.height <= H
        /\ Abs(fitOut.left - (W - fitOut.left - fitOut.width)) <= 1
        /\ Abs(fitOut.top - (H - fitOut.top - fitOut.height)) <= 1
        /\ IF W * h > w * H THEN fitOut.height = H ELSE fitOut.width = W
        /\ Abs(fitOut.width * h - fitOut.height * w) < Max(w, h)

\* C4: in both scripts an image of native width 0 or native height 0 never
\* raises a division error, and no geometry from the fit computation is
\* assigned to its picture.
C4_ZeroSizeSkipsDivisionAndPlacement ==
  /\ divErrors = 0
  /\ \A k \in 1..Len(slides) :
       (slides[k].kind = "image" /\ ZeroSize(slides[k].src)) => slides[k].pic # "fit"

\* a name with an extension
HasDot(name) == \E k \in 1..Len(name) : name[k] = 46

\* C5 as claimed: every image slide comes from a regular file with an allowed
\* extension directly in the root or in one of its immediate subdirectories,
\* and no slide of any kind comes from an entry with another extension or from
\* a directory whose name ends with an image extension.
C5_OnlyAllowedFilesMakeSlides ==
  \A k \in 1..Len(slides) :
    LET e == SrcEntry(slides[k].src)
    IN  /\ slides[k].kind = "image" =>
             (e.kind = "file" /\ HasExtension(e.name, ImageExtensions(script)))
        /\ ~(e.kind = "dir" /\ HasExtension(e.name, ImageExtensions(script)))
        /\ ~(HasDot(e.name) /\ ~HasExtension(e.name, ImageExtensions(script)))

\* C5 as amended: every image slide comes from a regular file with an allowed
\* extension directly in the root or in one of its immediate subdirectories;
\* every other slide is the title slide of a directory directly in the root.
C5_ImageSlidesOnlyFromAllowedFiles ==
  \A k \in 1..Len(slides) :
    LET e == SrcEntry(slides[k].src)
    IN  IF slides[k].kind = "image"
        THEN /\ Len(slides[k].src) \in 1..2
             /\ Len(slides[k].src) = 2 => Entry(tree, slides[k].src[1]).kind = "dir"
             /\ e.kind = "file"
             /\ \E ext \in ImageExtensions(script) : EndsWith(Lower(e.name), ext)
        ELSE /\ slides[k].kind = "title"
             /\ Len(slides[k].src) = 1
             /\ e.kind = "dir"

\* a finished run over a root that holds a directory named like an image and a
\* subdirectory with an upper-case image, another extension, a nested
\* directory and a directory named like an image: the upper-case image has
\* its slide and the first directory its title slide
C5_Witness ==
  /\ pc = "done"
  /\ \E d \in tree : d.kind = "dir" /\ HasExtension(d.name, ImageExtensions(script))
                     /\ \E k \in 1..Len(slides) : slides[k] = [TitleSlide(<<d.name>>)
                                                     EXCEPT !.title = d.name]
  /\ \E k \in 1..Len(slides) :
       /\ IsSubImage(slides[k])
       /\ slides[k].src[2] # Lower(slides[k].src[2])
       /\ Cardinality(Entry(tree, slides[k].src[1]).items) > 3

\* C6: if the root image directory does not exist the run reports it and
\* stops: no slide, no audio, the output file is never written, and script 2
\* ends with a non-zero exit status.
C6_MissingRootIsFatal ==
  ~rootExists =>
    /\ slides = <<>>
    /\ music_file = <<>>
    /\ saveCalls = 0 /\ saved = 0
    /\ pc \in { "start", "done" }
    /\ pc = "done" =>
         /\ log \cap { "dir_not_found", "fatal_not_found" } # {}
         /\ script = 2 => exitStatus > 0

C6_Witness == ~rootExists /\ pc = "done" /\ script = 2 /\ exitStatus = 1

\* the names of a listing with an allowed audio extension
AudioNames(listing) ==
  { listing[k] : k \in { n \in 1..Len(listing) :
                           HasExtension(listing[n], ALLOWED_MUSIC_EXTENSIONS) } }

\* C7: in script 2, when the audio directory holds several allowed audio
\* files and the document has slides, exactly one file is attached, the first
\* in sorted order of the directory, to the first slide and to no other.
C7_FirstSortedAudioOnFirstSlideOnly ==
  (script = 2 /\ pc \in { "save", "done" } /\ slides # <<>>
     /\ Cardinality(AudioNames(musicListing)) >= 2) =>
    /\ slides[1].media = << Sorted(AudioNames(musicListing))[1] >>
    /\ \A k \in 2..Len(slides) : slides[k].media = <<>>

\* the allowed image files of a directory, as paths, in enumeration order
RECURSIVE ImagePaths(_, _, _)
ImagePaths(prefix, entries, names) ==
  IF names = <<>> THEN <<>>
  ELSE (IF Entry(entries, names[1]).kind = "file"
           /\ HasExtension(names[1], ImageExtensions(script))
        THEN << prefix \o <<names[1]>> >> ELSE <<>>)
       \o ImagePaths(prefix, entries, Tail(names))

\* a subdirectory: its title, then its images unless its listing failed
RECURSIVE DirPaths(_)
DirPaths(names) ==
  IF names = <<>> THEN <<>>
  ELSE (IF Entry(tree, names[1]).kind = "dir"
        THEN << <<names[1]>> >>
             \o (IF names[1] \in unlistable THEN <<>>
                 ELSE ImagePaths(<<names[1]>>, Entry(tree, names[1]).items,
                                 Sorted(Names(Entry(tree, names[1]).items))))
        ELSE <<>>)
       \o DirPaths(Tail(names))

\* script 2 takes the root entries in one pass
RECURSIVE MixedPaths(_)
MixedPaths(names) ==
  IF names = <<>> THEN <<>>
  ELSE (IF Entry(tree, names[1]).kind = "dir" THEN DirPaths(<<names[1]>>)
        ELSE ImagePaths(<<>>, tree, <<names[1]>>))
       \o MixedPaths(Tail(names))

\* every entry the traversal has to hand to add_image_slide or add_title_slide
ExpectedCalls ==
  IF script = 1
  THEN ImagePaths(<<>>, tree, Sorted(Names(tree))) \o DirPaths(Sorted(Names(tree)))
  ELSE MixedPaths(Sorted(Names(tree)))

\* C8: a failure while adding an image or title slide or while listing one
\* subdirectory never aborts the run: once the root directory was listed,
\* every later entry is still processed (an unreadable subdirectory skips
\* that subdirectory only) and the run reaches the save step.
C8_FailuresAreIsolated ==
  (pc \in { "save", "done" } /\ rootExists
     /\ log \cap { "traceback", "fatal_list" } = {}) =>
    /\ calls = ExpectedCalls
    /\ pc = "done" =>
         /\ log \cap { "saved", "save_error", "not_saved" } # {}
         /\ calls # <<>> => saveCalls = 1

\* a finished run in which the listing of one subdirectory failed, an image
\* of a later subdirectory was still processed and the document was saved
C8_Witness ==
  /\ pc = "done" /\ saved = 1
  /\ unlistable # {}
  /\ \E k \in 1..Len(calls) :
       /\ Len(calls[k]) = 2
       /\ \A d \in unlistable : LexLess(d, calls[k][1])

\* C9: in script 2 every slide of the document at save time has had
\* set_automatic_transition applied to it.
C9_EverySlideHasTransition ==
  (script = 2 /\ pc \in { "save", "done" }) =>
    \A k \in 1..Len(slides) : slides[k].trans # "none"

\* C10: for an image of zero native width or height, script 1 aborts the add
\* (the image is not counted and no picture of it stays in the document) and
\* script 2 emits the slide and leaves it without a picture.
C10_ZeroSizeLeavesNoPicture ==
  /\ \A k \in 1..Len(slides) :
       (slides[k].kind = "image" /\ ZeroSize(slides[k].src)) => slides[k].pic = "none"
  /\ script = 1 =>
       root_images_processed <=
         Cardinality({ k \in 1..Len(slides) :
                         IsRootImage(slides[k]) /\ ~ZeroSize(slides[k].src) })

\* a picture of valid size on the canvas of the running script: geometry from
\* the fit computation, both sides at least 1, inside the canvas.  A picture
\* left as add_picture placed it for a zero-size image has one side scaled
\* from the zero native side and is not of valid size.
ValidPicture(s) ==
  /\ s.pic = "fit"
  /\ s.rect.width >= 1 /\ s.rect.height >= 1
  /\ s.rect.left >= 0 /\ s.rect.top >= 0
  /\ s.rect.left + s.rect.width <= SlideWidth(script)
  /\ s.rect.top + s.rect.height <= SlideHeight(script)

\* C11: in both scripts, once the document was saved, every slide of it is a
\* title slide or an image slide that holds a picture of width and height at
\* least 1 lying inside the canvas, whatever the native sizes of the images
\* met, zero sizes included (stated for the runs in which no library call
\* raised).
C11_EverySavedSlideIsValid ==
  (saveCalls > 0 /\ faults = 0) =>
    \A k \in 1..Len(slides) :
      IsTitle(slides[k]) \/ (slides[k].kind = "image" /\ ValidPicture(slides[k]))

\* the root directory was listed: the run is past its fatal exits
Listed == rootExists /\ log \cap { "traceback", "fatal_list" } = {}

\* what the audio step of script 2 prints, one of them on every path
MusicOutcomes ==
  { "music_dir_not_found", "no_music_file", "skipping_music",
    "no_slides_for_music", "error_adding_music", "embedded_music" }

\* the root directory holds an image file of script 2 or a subdirectory
MetImageOrDir ==
  \E x \in tree :
    x.kind = "dir" \/ HasExtension(x.name, ALLOWED_IMAGE_EXTENSIONS)

====
